---- MODULE Spec2Model ----
(***************************************************************************)
(* The HAL camera module (storm_control/hal4000/camera/camera.py): one     *)
(* Camera controller, its camera_control driver, the worker tasks it hands *)
(* to halModule.runWorkerTask and the messages delivered to                *)
(* Camera.processMessage.                                                  *)
(***************************************************************************)
EXTENDS Integers, Sequences, FiniteSets, TLC

VARIABLES
    film_length,   \* Camera.film_length: None or Some(n)
    parameters,    \* the ParameterSet objects: parameters[ref] is the value of object ref
    msgs,          \* the messages delivered to processMessage, in delivery order
    workers,       \* the worker tasks handed to runWorkerTask, in scheduling order
    dispatch       \* 0, or the index of the message whose handler is inside stopFilm()

vars == <<film_length, parameters, msgs, workers, dispatch>>

----------------------------------------------------------------------------
(* Bounds *)

MaxMsgs == 3       \* messages delivered in one behaviour
MaxLen == 1        \* film lengths are 1..MaxLen
MaxParam == 1      \* parameter values are 0..MaxParam
MaxBusMsgs == 2    \* messages sent while two controllers are followed

----------------------------------------------------------------------------
(* Values *)

\* Python's None, and an int n held by an attribute that may be None.
None == <<>>
Some(n) == <<n>>

\* HalModule.module_name of this controller, and the names a payload may carry.
module_name == "cam1"
CameraNames == {"cam1", "cam2"}

FilmLengths == 1..MaxLen
ParamVals == 0..MaxParam

\* Film settings: isFixedLength() and getFilmLength().
\* A film that is not of fixed length reports the length 0.
FilmSettings ==
    {fs \in [fixed : BOOLEAN, length : FilmLengths \cup {0}] : fs.fixed <=> fs.length # 0}

\* The ParameterSet of a "new parameters" payload: a tree with a sub-tree
\* for some of the modules, for all of them in a full parameter set.  The
\* sub-tree of this module, where the tree has one, holds new settings, a
\* value other than the 0 the driver is configured with.
ParameterTrees ==
    {tree \in UNION {[S -> ParamVals] : S \in SUBSET CameraNames} :
        module_name \in DOMAIN tree => tree[module_name] # 0}

\* The payload of a message without data the handler reads.
NoData == <<>>

\* camera_control's live ParameterSet is object 1; every copy is an object of
\* its own.
LiveRef == 1

----------------------------------------------------------------------------
(* halMessage: messages, responses and the log of driver calls *)

\* halMessage.HalMessage as the controller receives it, with what handling it
\* leaves behind: the responses added, the driver calls made for it, the
\* messages emitted, the assignments of a length to film_length, whether
\* processMessage raised and whether the worker reported an error; and
\* film_length and the driver's parameters as processMessage found them.
\* other_task is where the task stands that a second controller on the bus
\* runs for the message.
HalMessage(m_type, data) ==
    [type |-> m_type, data |-> data, responses |-> <<>>, calls |-> <<>>,
     emitted |-> <<>>, assigns |-> 0, raised |-> FALSE, worker_error |-> FALSE,
     before |-> [film_length |-> None, parameters |-> 0],
     other_task |-> "queued"]

\* message.isType(m_type)
isType(message, m_type) == message.type = m_type

\* halMessage.HalMessageResponse(source = self.module_name, data = {name : value})
HalMessageResponse(name, value) ==
    [source |-> module_name, data |-> [name |-> name, value |-> value]]

\* message.addResponse(response), for the message at index i
addResponse(ms, i, response) ==
    [ms EXCEPT ![i].responses = Append(@, response)]

\* A call of a camera_control method made while message i is handled.
DriverCall(op, arg, result) == [op |-> op, arg |-> arg, result |-> result]

callDriver(ms, i, op, arg, result) ==
    [ms EXCEPT ![i].calls = Append(@, DriverCall(op, arg, result))]

\* The running call of message i returns or raises.
endCall(ms, i, result) ==
    LET cs == ms[i].calls
    IN  [ms EXCEPT ![i].calls = [cs EXCEPT ![Len(cs)].result = result]]

\* The outcome of a driver call, as the log of calls records it.
outcome(driver_ok) == IF driver_ok THEN "ok" ELSE "error"

\* A DeviceError raised by a driver call made in processMessage: no branch
\* has an exception handler, so it leaves processMessage for message i.
raiseDeviceError(ms, i) == [ms EXCEPT ![i].raised = TRUE]

----------------------------------------------------------------------------
(* camera_control, the driver *)

\* camera_control.getParameters() when it returns: the driver's live
\* ParameterSet object.  Like every method of the driver it may raise a
\* DeviceError instead; each caller below takes the outcome of its call as
\* an input (driver_ok, params_ok).
getParameters == LiveRef

\* ParameterSet.copy(): a new object, at the reference new, with the value of
\* object ref.
copy(heap, ref, new) ==
    [r \in DOMAIN heap \cup {new} |-> IF r = new THEN heap[ref] ELSE heap[r]]

\* camera_control.newParameters(p) returning normally: the live object holds p.
newParameters(heap, p) == [heap EXCEPT ![LiveRef] = p]

\* camera_control.getCameraFunctionality() when it returns; it may raise a
\* DeviceError instead (the driver_ok of GetCameraFunctionality).
getCameraFunctionality == [camera_name |-> module_name]

\* ParameterSet.get(name) is defined for the names in the tree and fails otherwise.
hasSubTree(tree, name) == name \in DOMAIN tree

----------------------------------------------------------------------------
(* halModule.runWorkerTask *)

\* runWorkerTask(module, message, task): the task is queued for a worker
\* thread and the call returns.
runWorkerTask(ws, i, task) ==
    Append(ws, [msg |-> i, task |-> task, pc |-> "queued"])

----------------------------------------------------------------------------
(* Camera: the conditions and values of processMessage and of the tasks *)

\* message.getData()["functionality"].getTimeBase() == self.module_name
isTimeBase(message) == message.data.functionality.timebase = module_name

\* self.film_length is not None
hasFilmLength(fl) == fl # None

\* Variant: the camera name of the payload is not compared.
isThisCamera_any(message) == message.data.camera \in CameraNames

\* Variant: the comparison is inverted.
isThisCamera_other(message) == message.data.camera # module_name

\* message.getData()["camera"] == self.module_name
isThisCamera(message) == message.data.camera = module_name

\* Variant: every film is taken to be of fixed length.
isFixedLength_always(message) == message.data.film_settings.fixed \in BOOLEAN

\* film_settings.isFixedLength() and film_settings.getFilmLength()
isFixedLength(message) == message.data.film_settings.fixed
getFilmLength(message) == message.data.film_settings.length

\* "start film": film_length afterwards, given film_length before.
startFilmLength(message, fl) ==
    IF isFixedLength(message) THEN Some(getFilmLength(message)) ELSE fl

\* Variant: "stop film" leaves film_length as it is.
stopFilmLength_kept == film_length

\* "stop film": self.film_length = None
stopFilmLength == None

\* lambda : self.setFilmLength(self.film_length), evaluated when the worker
\* calls the lambda: the argument is film_length as it is then.
setFilmLengthArg == film_length

\* Variant: the sub-tree of another module is taken when the tree has one.
subTree_other(message) ==
    IF "cam2" \in DOMAIN message.data.parameters
    THEN message.data.parameters["cam2"]
    ELSE message.data.parameters[module_name]

\* message.getData()["parameters"].get(self.module_name)
subTree(message) == message.data.parameters[module_name]

\* Variant: the task catches the driver's exception and carries on.
taskRaises_swallowed(driver_ok) == driver_ok \notin BOOLEAN

\* The methods run as tasks have no exception handler: the task raises
\* exactly when the driver call does.
taskRaises(driver_ok) == ~driver_ok

\* Variant: the response carries the driver's object, not a copy of it.
oldParameters_shared(heap, i) ==
    [heap |-> copy(heap, getParameters, LiveRef + i), ref |-> getParameters]

\* self.camera_control.getParameters().copy(), for message i: the heap with
\* the copy, and the reference the "old parameters" response carries (the
\* copy made for message i is the object LiveRef + i).
oldParameters(heap, i) ==
    [heap |-> copy(heap, getParameters, LiveRef + i), ref |-> LiveRef + i]

\* Variant: "stop film" responds twice.
stopFilmResponse_twice(ms, i, params_ok) ==
    LET r == HalMessageResponse("parameters", getParameters)
        called == callDriver(ms, i, "getParameters", NoData, outcome(params_ok))
    IN  IF params_ok
        THEN addResponse(addResponse(called, i, r), i, r)
        ELSE raiseDeviceError(called, i)

\* "stop film" after stopFilm(): getParameters() is called and, when it
\* returns (params_ok), the response with the driver's parameters is added;
\* when it raises, the exception leaves processMessage.
stopFilmResponse(ms, i, params_ok) ==
    LET called == callDriver(ms, i, "getParameters", NoData, outcome(params_ok))
    IN  IF params_ok
        THEN addResponse(called, i, HalMessageResponse("parameters", getParameters))
        ELSE raiseDeviceError(called, i)

\* Variant: the message is emitted twice.
emit_twice(ms, i, message) ==
    [ms EXCEPT ![i].emitted = Append(Append(@, message), message)]

\* self.newMessage.emit(message), while message i is handled
emit(ms, i, message) == [ms EXCEPT ![i].emitted = Append(@, message)]

----------------------------------------------------------------------------
(* Camera.processMessage, one definition per branch.  ms is msgs with the  *)
(* message appended at index i.                                           *)

\* "configure1": getParameters() is called first; when it raises nothing is
\* emitted and the exception leaves processMessage.
Configure1(ms, i, driver_ok) ==
    /\ msgs' = LET called == callDriver(ms, i, "getParameters", NoData,
                                        outcome(driver_ok))
               IN  IF driver_ok
                   THEN emit(called, i,
                             [m_type |-> "initial parameters",
                              data |-> [name |-> "parameters", value |-> getParameters]])
                   ELSE raiseDeviceError(called, i)
    /\ UNCHANGED <<film_length, parameters, workers, dispatch>>

\* Variant: scheduling the task consumes the pending length.
FilmTiming_consuming(ms, i) ==
    /\ msgs' = ms
    /\ workers' = IF isTimeBase(ms[i]) /\ hasFilmLength(film_length)
                  THEN runWorkerTask(workers, i, "setFilmLength")
                  ELSE workers
    /\ film_length' = IF isTimeBase(ms[i]) THEN None ELSE film_length
    /\ UNCHANGED <<parameters, dispatch>>

FilmTiming(ms, i) ==
    /\ msgs' = ms
    /\ workers' = IF isTimeBase(ms[i]) /\ hasFilmLength(film_length)
                  THEN runWorkerTask(workers, i, "setFilmLength")
                  ELSE workers
    /\ UNCHANGED <<film_length, parameters, dispatch>>

\* "get camera functionality": getCameraFunctionality() is called when the
\* message names this camera; when it raises no response is added and the
\* exception leaves processMessage.
GetCameraFunctionality(ms, i, driver_ok) ==
    /\ msgs' = LET called == callDriver(ms, i, "getCameraFunctionality", NoData,
                                        outcome(driver_ok))
               IN  IF ~isThisCamera(ms[i]) THEN ms
                   ELSE IF driver_ok
                   THEN addResponse(called, i,
                            HalMessageResponse("functionality", getCameraFunctionality))
                   ELSE raiseDeviceError(called, i)
    /\ UNCHANGED <<film_length, parameters, workers, dispatch>>

NewParameters(ms, i) ==
    /\ msgs' = ms
    /\ workers' = runWorkerTask(workers, i, "updateParameters")
    /\ UNCHANGED <<film_length, parameters, dispatch>>

\* Variant: the task is handed to the worker twice.
ShutterClicked_twice(ms, i) ==
    /\ msgs' = ms
    /\ workers' = IF isThisCamera(ms[i])
                  THEN runWorkerTask(runWorkerTask(workers, i, "toggleShutter"),
                                     i, "toggleShutter")
                  ELSE workers
    /\ UNCHANGED <<film_length, parameters, dispatch>>

ShutterClicked(ms, i) ==
    /\ msgs' = ms
    /\ workers' = IF isThisCamera(ms[i])
                  THEN runWorkerTask(workers, i, "toggleShutter")
                  ELSE workers
    /\ UNCHANGED <<film_length, parameters, dispatch>>

StartCamera(ms, i) ==
    /\ msgs' = ms
    /\ workers' = IF isThisCamera(ms[i])
                  THEN runWorkerTask(workers, i, "startCamera")
                  ELSE workers
    /\ UNCHANGED <<film_length, parameters, dispatch>>

\* Variant: "start film" also starts the camera.
StartFilm_starting(ms, i) ==
    /\ film_length' = startFilmLength(ms[i], film_length)
    /\ msgs' = IF isFixedLength(ms[i])
               THEN [ms EXCEPT ![i].assigns = @ + 1]
               ELSE ms
    /\ workers' = runWorkerTask(workers, i, "startCamera")
    /\ UNCHANGED <<parameters, dispatch>>

StartFilm(ms, i) ==
    /\ film_length' = startFilmLength(ms[i], film_length)
    /\ msgs' = IF isFixedLength(ms[i])
               THEN [ms EXCEPT ![i].assigns = @ + 1]
               ELSE ms
    /\ UNCHANGED <<parameters, workers, dispatch>>

StopCamera(ms, i) ==
    /\ msgs' = ms
    /\ workers' = IF isThisCamera(ms[i])
                  THEN runWorkerTask(workers, i, "stopCamera")
                  ELSE workers
    /\ UNCHANGED <<film_length, parameters, dispatch>>

\* Variant: stopFilm() is handed to a worker like the other driver calls,
\* and the handler responds without waiting for it.
StopFilm_asTask(ms, i) ==
    /\ film_length' = stopFilmLength
    /\ msgs' = stopFilmResponse(ms, i, TRUE)
    /\ workers' = runWorkerTask(workers, i, "stopFilm")
    /\ UNCHANGED <<parameters, dispatch>>

\* "stop film" up to the call of camera_control.stopFilm(), which the
\* handler makes itself: it waits in the call.
StopFilm(ms, i) ==
    /\ film_length' = stopFilmLength
    /\ msgs' = callDriver(ms, i, "stopFilm", NoData, "running")
    /\ dispatch' = i
    /\ UNCHANGED <<parameters, workers>>

\* A message of a type no branch names.
Unrecognised(ms, i) ==
    /\ msgs' = ms
    /\ UNCHANGED <<film_length, parameters, workers, dispatch>>

\* The messages reach processMessage one at a time: the next one is handled
\* when the handler of the one before has returned.  driver_ok is the
\* outcome of the driver call the branch makes before it returns, if any.
processMessage(message, driver_ok) ==
    /\ dispatch = 0
    /\ Len(msgs) < MaxMsgs
    /\ LET ms == Append(msgs, [message EXCEPT !.before =
                        [film_length |-> film_length,
                         parameters |-> parameters[getParameters]]])
           i == Len(msgs) + 1
       IN  IF isType(message, "configure1") THEN Configure1(ms, i, driver_ok)
           ELSE IF isType(message, "film timing") THEN FilmTiming(ms, i)
           ELSE IF isType(message, "get camera functionality")
                THEN GetCameraFunctionality(ms, i, driver_ok)
           ELSE IF isType(message, "new parameters") THEN NewParameters(ms, i)
           ELSE IF isType(message, "shutter clicked") THEN ShutterClicked(ms, i)
           ELSE IF isType(message, "start camera") THEN StartCamera(ms, i)
           ELSE IF isType(message, "start film") THEN StartFilm(ms, i)
           ELSE IF isType(message, "stop camera") THEN StopCamera(ms, i)
           ELSE IF isType(message, "stop film") THEN StopFilm(ms, i)
           ELSE Unrecognised(ms, i)

\* Variant: the handler catches the exception and responds all the same.
StopFilmReturn_caught(driver_ok, params_ok) ==
    /\ dispatch # 0
    /\ msgs' = stopFilmResponse(endCall(msgs, dispatch, outcome(driver_ok)),
                                dispatch, params_ok)
    /\ dispatch' = 0
    /\ UNCHANGED <<film_length, parameters, workers>>

\* "stop film" from the return of camera_control.stopFilm(): when it
\* returned (driver_ok) getParameters() is called for the response; when it
\* raised the exception leaves processMessage.
StopFilmReturn(driver_ok, params_ok) ==
    /\ dispatch # 0
    /\ msgs' = IF driver_ok
               THEN stopFilmResponse(endCall(msgs, dispatch, "ok"), dispatch, params_ok)
               ELSE raiseDeviceError(endCall(msgs, dispatch, "error"), dispatch)
    /\ dispatch' = 0
    /\ UNCHANGED <<film_length, parameters, workers>>

----------------------------------------------------------------------------
(* The worker tasks: Camera.setFilmLength, startCamera, stopCamera,        *)
(* toggleShutter and updateParameters, each run by a worker thread         *)

\* The worker reports a task that raised (HalModule.handleWorkerError).
handleWorkerError(ms, i) == [ms EXCEPT ![i].worker_error = TRUE]

\* Variant: the "old parameters" response takes the place of the responses
\* the message has.
updateParametersStart_replacing(w, params_ok) ==
    LET i == workers[w].msg
        old == oldParameters(parameters, i)
        called == callDriver(msgs, i, "getParameters", NoData, outcome(params_ok))
        ms == [called EXCEPT
                  ![i].responses = <<HalMessageResponse("old parameters", old.ref)>>]
    IN  IF taskRaises(params_ok)
        THEN /\ parameters' = parameters
             /\ msgs' = handleWorkerError(called, i)
             /\ workers' = [workers EXCEPT ![w].pc = "failed"]
        ELSE /\ parameters' = old.heap
             /\ IF hasSubTree(msgs[i].data.parameters, module_name)
                THEN /\ msgs' = callDriver(ms, i, "newParameters", subTree(msgs[i]),
                                           "running")
                     /\ workers' = [workers EXCEPT ![w].pc = "running"]
                ELSE /\ msgs' = handleWorkerError(ms, i)
                     /\ workers' = [workers EXCEPT ![w].pc = "failed"]

\* updateParameters up to the call of camera_control.newParameters(p):
\* getParameters() (params_ok) and the "old parameters" response with a copy
\* of what it returned, then the sub-tree of this module, whose lookup fails
\* when the tree has none.  The task ends where a call raises.
updateParametersStart(w, params_ok) ==
    LET i == workers[w].msg
        old == oldParameters(parameters, i)
        called == callDriver(msgs, i, "getParameters", NoData, outcome(params_ok))
        ms == addResponse(called, i, HalMessageResponse("old parameters", old.ref))
    IN  IF taskRaises(params_ok)
        THEN /\ parameters' = parameters
             /\ msgs' = handleWorkerError(called, i)
             /\ workers' = [workers EXCEPT ![w].pc = "failed"]
        ELSE /\ parameters' = old.heap
             /\ IF hasSubTree(msgs[i].data.parameters, module_name)
                THEN /\ msgs' = callDriver(ms, i, "newParameters", subTree(msgs[i]),
                                           "running")
                     /\ workers' = [workers EXCEPT ![w].pc = "running"]
                ELSE /\ msgs' = handleWorkerError(ms, i)
                     /\ workers' = [workers EXCEPT ![w].pc = "failed"]

\* updateParameters from the return of camera_control.newParameters(p)
\* (driver_ok): getParameters() (params_ok) and the "new parameters" response
\* with the driver's parameters.  The task ends where a call raises.
updateParametersFinish(w, driver_ok, params_ok) ==
    LET i == workers[w].msg
        p == msgs[i].calls[Len(msgs[i].calls)].arg
        ms == endCall(msgs, i, outcome(driver_ok))
        called == callDriver(ms, i, "getParameters", NoData, outcome(params_ok))
    IN  /\ parameters' = IF driver_ok THEN newParameters(parameters, p) ELSE parameters
        /\ IF taskRaises(driver_ok)
           THEN /\ msgs' = handleWorkerError(ms, i)
                /\ workers' = [workers EXCEPT ![w].pc = "failed"]
           ELSE IF taskRaises(params_ok)
           THEN /\ msgs' = handleWorkerError(called, i)
                /\ workers' = [workers EXCEPT ![w].pc = "failed"]
           ELSE /\ msgs' = addResponse(called, i,
                               HalMessageResponse("new parameters", getParameters))
                /\ workers' = [workers EXCEPT ![w].pc = "done"]

\* setFilmLength, startCamera, stopCamera, toggleShutter: one driver call.
driverTaskStart(w) ==
    LET i == workers[w].msg
        task == workers[w].task
    IN  /\ msgs' = callDriver(msgs, i, task,
                              IF task = "setFilmLength" THEN setFilmLengthArg ELSE NoData,
                              "running")
        /\ workers' = [workers EXCEPT ![w].pc = "running"]
        /\ UNCHANGED parameters

driverTaskFinish(w, driver_ok) ==
    LET i == workers[w].msg
        ms == endCall(msgs, i, outcome(driver_ok))
    IN  /\ msgs' = IF taskRaises(driver_ok) THEN handleWorkerError(ms, i) ELSE ms
        /\ workers' = [workers EXCEPT
                          ![w].pc = IF taskRaises(driver_ok) THEN "failed" ELSE "done"]
        /\ UNCHANGED parameters

\* A worker thread takes a queued task and runs it up to its driver call;
\* params_ok is the outcome of the getParameters() updateParameters makes
\* on the way.
WorkerStart(w, params_ok) ==
    /\ workers[w].pc = "queued"
    /\ IF workers[w].task = "updateParameters"
       THEN updateParametersStart(w, params_ok)
       ELSE params_ok /\ driverTaskStart(w)
    /\ UNCHANGED <<film_length, dispatch>>

\* The driver call of a running task returns (driver_ok) or raises;
\* params_ok is the outcome of the getParameters() updateParameters makes
\* after it.
WorkerFinish(w, driver_ok, params_ok) ==
    /\ workers[w].pc = "running"
    /\ IF workers[w].task = "updateParameters"
       THEN (driver_ok \/ params_ok) /\ updateParametersFinish(w, driver_ok, params_ok)
       ELSE params_ok /\ driverTaskFinish(w, driver_ok)
    /\ UNCHANGED <<film_length, dispatch>>

----------------------------------------------------------------------------
(* The system *)

\* Camera.__init__: film_length is None; the driver holds its configured
\* parameters; nothing has been delivered.
Init ==
    /\ film_length = None
    /\ parameters = [ref \in {LiveRef} |-> 0]
    /\ msgs = <<>>
    /\ workers = <<>>
    /\ dispatch = 0

DeliverConfigure1 ==
    \E driver_ok \in BOOLEAN :
        processMessage(HalMessage("configure1", NoData), driver_ok)

DeliverFilmTiming ==
    \E tb \in CameraNames :
        processMessage(HalMessage("film timing", [functionality |-> [timebase |-> tb]]),
                       TRUE)

DeliverGetCameraFunctionality ==
    \E c \in CameraNames : \E driver_ok \in BOOLEAN :
        processMessage(HalMessage("get camera functionality", [camera |-> c]),
                       driver_ok)

DeliverNewParameters ==
    \E tree \in ParameterTrees :
        processMessage(HalMessage("new parameters", [parameters |-> tree]), TRUE)

DeliverShutterClicked ==
    \E c \in CameraNames :
        processMessage(HalMessage("shutter clicked", [camera |-> c]), TRUE)

DeliverStartCamera ==
    \E c \in CameraNames :
        processMessage(HalMessage("start camera", [camera |-> c]), TRUE)

DeliverStartFilm ==
    \E fs \in FilmSettings :
        processMessage(HalMessage("start film", [film_settings |-> fs]), TRUE)

DeliverStopCamera ==
    \E c \in CameraNames :
        processMessage(HalMessage("stop camera", [camera |-> c]), TRUE)

DeliverStopFilm == processMessage(HalMessage("stop film", NoData), TRUE)

DeliverUnrecognised == processMessage(HalMessage("configure2", NoData), TRUE)

\* The outcomes of stopFilm() and of the getParameters() after it; when
\* stopFilm() raised there is no second call.
StopFilmReturns ==
    \E driver_ok, params_ok \in BOOLEAN :
        /\ driver_ok \/ params_ok
        /\ StopFilmReturn(driver_ok, params_ok)

WorkerStarts == \E w \in DOMAIN workers : \E params_ok \in BOOLEAN : WorkerStart(w, params_ok)

WorkerFinishes ==
    \E w \in DOMAIN workers : \E driver_ok, params_ok \in BOOLEAN :
        WorkerFinish(w, driver_ok, params_ok)

Next ==
    \/ DeliverConfigure1
    \/ DeliverFilmTiming
    \/ DeliverGetCameraFunctionality
    \/ DeliverNewParameters
    \/ DeliverShutterClicked
    \/ DeliverStartCamera
    \/ DeliverStartFilm
    \/ DeliverStopCamera
    \/ DeliverStopFilm
    \/ DeliverUnrecognised
    \/ StopFilmReturns
    \/ WorkerStarts
    \/ WorkerFinishes

Spec == Init /\ [][Next]_vars

\* No driver call has raised.
DriverReturns ==
    \A i \in DOMAIN msgs :
        \A k \in DOMAIN msgs[i].calls : msgs[i].calls[k].result # "error"

\* The steps of the system with a driver that returns: those in which no
\* driver call raises.
ReturningNext == Next /\ DriverReturns'

\* The system with worker threads that are scheduled fairly and a driver
\* that returns: a queued task is started, and a driver call that was
\* entered returns.
LiveSpec ==
    /\ Init
    /\ [][ReturningNext]_vars
    /\ \A w \in 1..MaxMsgs :
           /\ WF_vars(w \in DOMAIN workers /\ WorkerStart(w, TRUE))
           /\ WF_vars(w \in DOMAIN workers /\ WorkerFinish(w, TRUE, TRUE))

----------------------------------------------------------------------------
(* Vocabulary of the properties *)

Delivered == DOMAIN msgs

\* The handler of message i has returned (or raised).
Returned(i) == dispatch # i

\* The worker tasks scheduled for message i.
WorkersOf(i) == {w \in DOMAIN workers : workers[w].msg = i}

\* The calls of the driver method op made for message i.
CallsOf(i, op) == SelectSeq(msgs[i].calls, LAMBDA c : c.op = op)

\* Their number.
NumCalls(i, op) ==
    Cardinality({k \in DOMAIN msgs[i].calls : msgs[i].calls[k].op = op})

ResponseNames(i) == [k \in DOMAIN msgs[i].responses |-> msgs[i].responses[k].data.name]

\* The names of the driver methods called for message i, in order.
CallNames(i) == [k \in DOMAIN msgs[i].calls |-> msgs[i].calls[k].op]

\* None of the driver calls made for message i has raised.
NoCallFailed(i) ==
    \A k \in DOMAIN msgs[i].calls : msgs[i].calls[k].result # "error"

IsFixedStartFilm(i) ==
    /\ msgs[i].type = "start film"
    /\ msgs[i].data.film_settings.fixed

AddressedTypes ==
    {"get camera functionality", "shutter clicked", "start camera", "stop camera"}

IsMisaddressed(m) ==
    /\ m.type \in AddressedTypes
    /\ m.data.camera # module_name

----------------------------------------------------------------------------
(* C1 *)

\* C1: film_length is not None only if a fixed-length "start film" has been
\* processed and no "stop film" has been processed since.
C1_FilmLengthOnlyInFixedFilm ==
    film_length # None =>
        \E i \in Delivered :
            /\ IsFixedStartFilm(i)
            /\ \A j \in (i + 1)..Len(msgs) : msgs[j].type # "stop film"

\* A second film: a length is pending although a "stop film" was processed
\* earlier.
C1_Witness ==
    /\ film_length # None
    /\ \E j \in Delivered : msgs[j].type = "stop film"

----------------------------------------------------------------------------
(* C2 *)

\* C2 as claimed: every processed "stop film" leaves film_length None and
\* exactly one response on the message.
C2_AlwaysOneResponse ==
    \A i \in Delivered :
        (msgs[i].type = "stop film" /\ Returned(i)) =>
            /\ i = Len(msgs) => film_length = None
            /\ Len(msgs[i].responses) = 1

\* C2, amended: "stop film" leaves film_length None in every state of the
\* controller, from the call of stopFilm() on.  It adds exactly one
\* response, carrying the driver's parameters, when stopFilm() and the
\* getParameters() after it both return; when either raises it adds none
\* and the exception leaves processMessage.
C2_StopFilmClearsAndResponds ==
    \A i \in Delivered :
        msgs[i].type = "stop film" =>
            /\ i = Len(msgs) => film_length = None
            /\ (Returned(i) /\ NoCallFailed(i)) =>
                   /\ msgs[i].responses = <<HalMessageResponse("parameters", LiveRef)>>
                   /\ CallNames(i) = <<"stopFilm", "getParameters">>
                   /\ ~msgs[i].raised
            /\ (~Returned(i) \/ ~NoCallFailed(i)) => msgs[i].responses = <<>>
            /\ msgs[i].raised <=> ~NoCallFailed(i)

\* "stop film" handled while a length was pending, with its response; and a
\* "stop film" left without a response by a getParameters() that raised
\* after stopFilm() had returned.
C2_Witness ==
    /\ \E i \in Delivered :
           /\ msgs[i].type = "stop film" /\ Returned(i)
           /\ Len(msgs[i].responses) = 1
           /\ msgs[i].before.film_length # None
    /\ \E i \in Delivered :
           /\ msgs[i].type = "stop film" /\ Returned(i)
           /\ Len(msgs[i].calls) = 2
           /\ msgs[i].calls[1].result = "ok"
           /\ msgs[i].calls[2].result = "error"
           /\ msgs[i].responses = <<>>

----------------------------------------------------------------------------
(* C3 *)

\* C3: a message of an identity-addressed type whose camera name is not
\* module_name causes no driver call, no worker task and no response, and
\* processing it leaves film_length unchanged.
C3_MisaddressedIsNoOp ==
    /\ [](\A i \in Delivered :
              IsMisaddressed(msgs[i]) =>
                  /\ msgs[i].calls = <<>>
                  /\ msgs[i].responses = <<>>
                  /\ WorkersOf(i) = {})
    /\ [][(Len(msgs') = Len(msgs) + 1 /\ IsMisaddressed(msgs'[Len(msgs')])) =>
              /\ film_length' = film_length
              /\ workers' = workers
              /\ parameters' = parameters]_vars

\* A request for the functionality and a request that would schedule a task
\* have both been delivered with another camera's name, while a length was
\* pending.
C3_Witness ==
    \E i, j \in Delivered :
        /\ IsMisaddressed(msgs[i]) /\ msgs[i].type = "get camera functionality"
        /\ IsMisaddressed(msgs[j]) /\ msgs[j].type = "start camera"
        /\ msgs[i].before.film_length # None
        /\ film_length # None

----------------------------------------------------------------------------
(* C4 *)

IsOld(r) == r.data.name = "old parameters"

\* C4: for a "new parameters" message whose driver calls succeed, once
\* newParameters() has returned, the controller has added exactly two
\* responses, "old parameters" then "new parameters"; newParameters() is
\* called exactly once, with the sub-tree of module_name; "new parameters"
\* is added only after the call returned.
C4_OldThenNewAroundOneCall ==
    \A i \in Delivered :
        msgs[i].type = "new parameters" =>
            LET calls == msgs[i].calls
                made == {k \in DOMAIN calls : calls[k].op = "newParameters"}
                returned == {k \in made : calls[k].result = "ok"}
                names == ResponseNames(i)
            IN  /\ Cardinality(made) <= 1
                /\ \A k \in made :
                       calls[k].arg = msgs[i].data.parameters[module_name]
                /\ (\E k \in DOMAIN names : names[k] = "new parameters") =>
                       returned # {}
                /\ (returned # {} /\ NoCallFailed(i)) =>
                       /\ names = <<"old parameters", "new parameters">>
                       /\ \A k \in DOMAIN msgs[i].responses :
                              msgs[i].responses[k].source = module_name
                       /\ CallNames(i)
                              = <<"getParameters", "newParameters", "getParameters">>
                /\ (\E k \in made : calls[k].result = "running") =>
                       names = <<"old parameters">>

\* newParameters() returned for a tree that holds a different sub-tree for
\* another module, and both responses are on the message.
C4_Witness ==
    \E i \in Delivered :
        /\ msgs[i].type = "new parameters"
        /\ DOMAIN msgs[i].data.parameters = CameraNames
        /\ msgs[i].data.parameters[module_name] # msgs[i].data.parameters["cam2"]
        /\ Len(CallsOf(i, "newParameters")) = 1
        /\ CallsOf(i, "newParameters")[1].result = "ok"
        /\ Len(msgs[i].responses) = 2

----------------------------------------------------------------------------
(* C5 *)

\* The "old parameters" responses: <<message, position>>.
OldResponses ==
    {ik \in Delivered \X (1..2) :
        /\ ik[2] \in DOMAIN msgs[ik[1]].responses
        /\ IsOld(msgs[ik[1]].responses[ik[2]])}

\* C5 as claimed: the value of an "old parameters" response is the value of
\* the driver's parameters when the message was dispatched.
C5_OldIsValueAtDispatch ==
    \A ik \in OldResponses :
        parameters[msgs[ik[1]].responses[ik[2]].data.value] = msgs[ik[1]].before.parameters

\* C5, amended: the value of an "old parameters" response is the value of
\* the driver's parameters when the worker starts updateParameters and its
\* getParameters() returns, before its newParameters() call, and no later
\* step changes that value.
C5_OldIsSnapshotAtTaskStart ==
    /\ [][\A w \in DOMAIN workers :
              (workers[w].task = "updateParameters"
               /\ workers[w].pc = "queued" /\ workers'[w].pc = "running") =>
                  LET i == workers[w].msg
                  IN  /\ Len(msgs'[i].responses) = 1
                      /\ IsOld(msgs'[i].responses[1])
                      /\ parameters'[msgs'[i].responses[1].data.value] = parameters[LiveRef]
                      /\ NumCalls(i, "newParameters") = 0]_vars
    /\ [][\A ik \in OldResponses :
              /\ ik[2] \in DOMAIN msgs'[ik[1]].responses
              /\ msgs'[ik[1]].responses[ik[2]] = msgs[ik[1]].responses[ik[2]]
              /\ parameters'[msgs[ik[1]].responses[ik[2]].data.value]
                     = parameters[msgs[ik[1]].responses[ik[2]].data.value]]_vars

\* The driver's parameters have changed since the snapshot was taken: the
\* response still holds the value from before.
C5_Witness ==
    \E ik \in OldResponses :
        /\ parameters[msgs[ik[1]].responses[ik[2]].data.value] # parameters[LiveRef]
        /\ Len(msgs[ik[1]].responses) = 2

----------------------------------------------------------------------------
(* C6 *)

IsOpenStartFilm(i) ==
    /\ msgs[i].type = "start film"
    /\ ~msgs[i].data.film_settings.fixed

IsFilmTimingForThisCamera(i) ==
    /\ msgs[i].type = "film timing"
    /\ msgs[i].data.functionality.timebase = module_name

\* C6: after a "start film" whose settings declare no fixed length,
\* film_length is None whatever came before, and a "film timing" naming
\* this controller processed next schedules no worker task.
C6_OpenFilmHasNoLength ==
    \A i \in Delivered :
        IsOpenStartFilm(i) =>
            /\ i = Len(msgs) => film_length = None
            /\ (i + 1 \in Delivered /\ IsFilmTimingForThisCamera(i + 1)) =>
                   WorkersOf(i + 1) = {}

----------------------------------------------------------------------------
(* C7 *)

\* C7: "film timing" schedules a setFilmLength task if and only if the time
\* base is module_name and film_length is not None at that moment; right
\* after a fixed-length "start film" with length n the driver receives
\* setFilmLength(n); no response is added in either case.
C7_FilmTimingPushesPendingLength ==
    \A i \in Delivered :
        msgs[i].type = "film timing" =>
            /\ msgs[i].responses = <<>>
            /\ \A w \in WorkersOf(i) : workers[w].task = "setFilmLength"
            /\ WorkersOf(i) # {} <=>
                   (msgs[i].data.functionality.timebase = module_name
                    /\ msgs[i].before.film_length # None)
            /\ (i > 1 /\ IsFixedStartFilm(i - 1)) =>
                   \A k \in DOMAIN msgs[i].calls :
                       /\ msgs[i].calls[k].op = "setFilmLength"
                       /\ msgs[i].calls[k].arg = Some(msgs[i - 1].data.film_settings.length)

----------------------------------------------------------------------------
(* C8 *)

\* The number of length assignments made for message j, and the number of
\* setFilmLength() calls made for it.
Assignments(j) == msgs[j].assigns

Pushes(j) == NumCalls(j, "setFilmLength")

\* The film that starts with the "start film" at s runs from s up to the
\* next "stop film": FilmEnd(s) is its last message so far.
RECURSIVE FilmEnd(_)
FilmEnd(j) ==
    IF j = Len(msgs) \/ msgs[j].type = "stop film" THEN j ELSE FilmEnd(j + 1)

FilmOf(s) == s..FilmEnd(s)

RECURSIVE AssignmentsIn(_, _)
AssignmentsIn(a, b) == IF a > b THEN 0 ELSE Assignments(a) + AssignmentsIn(a + 1, b)

RECURSIVE PushesIn(_, _)
PushesIn(a, b) == IF a > b THEN 0 ELSE Pushes(a) + PushesIn(a + 1, b)

\* C8 as claimed: within one film, whatever is delivered in it, a length is
\* assigned to film_length at most once and film_length is read and pushed
\* to the driver at most once.
C8_OncePerFilm ==
    \A s \in Delivered :
        msgs[s].type = "start film" =>
            /\ AssignmentsIn(s, FilmEnd(s)) <= 1
            /\ PushesIn(s, FilmEnd(s)) <= 1

\* C8, amended: a message assigns a length to film_length at most once, and
\* only a fixed-length "start film" does; a message has film_length pushed
\* to the driver at most once, and only a "film timing" naming this
\* controller does.  Within one film there are at most as many assignments
\* as "start film" messages and as many pushes as "film timing" messages.
C8_OncePerMessage ==
    /\ \A j \in Delivered :
           /\ Assignments(j) <= 1
           /\ Assignments(j) = 1 <=> IsFixedStartFilm(j)
           /\ Pushes(j) <= 1
           /\ Pushes(j) = 1 => IsFilmTimingForThisCamera(j)
    /\ \A s \in Delivered :
           msgs[s].type = "start film" =>
               /\ AssignmentsIn(s, FilmEnd(s))
                      <= Cardinality({j \in FilmOf(s) : msgs[j].type = "start film"})
               /\ PushesIn(s, FilmEnd(s))
                      <= Cardinality({j \in FilmOf(s) : msgs[j].type = "film timing"})

\* One film with one assignment and one push, the film stopped afterwards.
C8_Witness ==
    /\ Len(msgs) = 3
    /\ IsFixedStartFilm(1)
    /\ Pushes(2) = 1
    /\ msgs[3].type = "stop film"
    /\ AssignmentsIn(1, FilmEnd(1)) = 1
    /\ PushesIn(1, FilmEnd(1)) = 1

----------------------------------------------------------------------------
(* C9 *)

\* C9: stopFilm() is called by the handler of "stop film" itself, not by a
\* worker task; it has returned before the response is added and before the
\* handler returns; the parameters of the response are read from the driver
\* after stopFilm() returned.
C9_StopFilmIsSynchronous ==
    \A i \in Delivered :
        msgs[i].type = "stop film" =>
            /\ WorkersOf(i) = {}
            /\ NumCalls(i, "stopFilm") = 1
            /\ msgs[i].calls[1].op = "stopFilm"
            /\ Returned(i) <=> msgs[i].calls[1].result # "running"
            /\ msgs[i].responses # <<>> =>
                   /\ msgs[i].calls[1].result = "ok"
                   /\ [k \in DOMAIN msgs[i].calls |-> msgs[i].calls[k].op]
                          = <<"stopFilm", "getParameters">>
                   /\ msgs[i].responses[1].data.value = getParameters

\* "stop film" handled: stopFilm() returned, then the response; and a
\* handler that is waiting in stopFilm().
C9_Witness ==
    /\ \E i \in Delivered :
           /\ msgs[i].type = "stop film"
           /\ Returned(i)
           /\ Len(msgs[i].responses) = 1
    /\ \E i \in Delivered : msgs[i].type = "stop film" /\ ~Returned(i)

----------------------------------------------------------------------------
(* C10 *)

WorkerTasks ==
    {"setFilmLength", "startCamera", "stopCamera", "toggleShutter", "newParameters"}

\* C10: a driver call that fails inside a worker task is reported by the
\* worker as an error of the message that scheduled the task, and the call
\* is not made again; after a failing newParameters() the message carries
\* the "old parameters" response only.
C10_WorkerFailureSurfaces ==
    \A i \in Delivered :
        \A k \in DOMAIN msgs[i].calls :
            LET c == msgs[i].calls[k]
            IN  /\ (c.op \in WorkerTasks /\ c.result = "error") =>
                       /\ msgs[i].worker_error
                       /\ \A w \in WorkersOf(i) : workers[w].pc = "failed"
                       /\ NumCalls(i, c.op) = 1
                       /\ k = Len(msgs[i].calls)
                       /\ c.op = "newParameters" =>
                              ResponseNames(i) = <<"old parameters">>
                /\ (msgs[i].type = "new parameters" /\ c.result = "error") =>
                       /\ msgs[i].worker_error
                       /\ \A w \in WorkersOf(i) : workers[w].pc = "failed"
                       /\ k = Len(msgs[i].calls)

\* newParameters() has failed for one message and setFilmLength() for
\* another.
C10_Witness ==
    \E i, j \in Delivered :
        /\ Len(CallsOf(i, "newParameters")) = 1
        /\ CallsOf(i, "newParameters")[1].result = "error"
        /\ Len(CallsOf(j, "setFilmLength")) = 1
        /\ CallsOf(j, "setFilmLength")[1].result = "error"

----------------------------------------------------------------------------
(* Two controllers on the bus.  Every module receives every message: the   *)
(* Camera called module_name first, the Camera called other_name after it. *)
(* Of the second controller the model keeps what it does to the shared     *)
(* message and to the ParameterSet objects of its own driver, which live   *)
(* in the same heap at references of their own.                            *)

other_name == "cam2"

\* The live ParameterSet of the second controller's driver.
OtherLiveRef == 0

\* The copy the second controller makes for message i.
otherCopyRef(i) == OtherLiveRef - i

\* The responses of message i added by the controller called name.
ResponsesFrom(i, name) ==
    {k \in DOMAIN msgs[i].responses : msgs[i].responses[k].source = name}

otherResponse(name, value) ==
    [source |-> other_name, data |-> [name |-> name, value |-> value]]

\* The second controller's updateParameters task for message i up to its
\* driver's newParameters(): its driver's getParameters() (params_ok),
\* "old parameters" with a copy of what it returned, and the sub-tree of
\* other_name looked up in the payload.  The task ends where the getter
\* raises or the tree has no such sub-tree.
otherUpdateParametersStart(i, params_ok) ==
    /\ msgs[i].type = "new parameters"
    /\ msgs[i].other_task = "queued"
    /\ IF taskRaises(params_ok)
       THEN /\ msgs' = [msgs EXCEPT ![i].other_task = "failed"]
            /\ UNCHANGED parameters
       ELSE /\ parameters' = copy(parameters, OtherLiveRef, otherCopyRef(i))
            /\ msgs' = [addResponse(msgs, i,
                            otherResponse("old parameters", otherCopyRef(i)))
                        EXCEPT ![i].other_task =
                            IF hasSubTree(msgs[i].data.parameters, other_name)
                            THEN "running" ELSE "failed"]
    /\ UNCHANGED <<film_length, workers, dispatch>>

\* The same task from the return of its driver's newParameters()
\* (driver_ok): its driver's getParameters() (params_ok) and
\* "new parameters" with its driver's live object.  The task ends where a
\* call raises.
otherUpdateParametersFinish(i, driver_ok, params_ok) ==
    /\ msgs[i].type = "new parameters"
    /\ msgs[i].other_task = "running"
    /\ parameters' = IF driver_ok
                     THEN [parameters EXCEPT
                              ![OtherLiveRef] = msgs[i].data.parameters[other_name]]
                     ELSE parameters
    /\ IF taskRaises(driver_ok) \/ taskRaises(params_ok)
       THEN msgs' = [msgs EXCEPT ![i].other_task = "failed"]
       ELSE msgs' = [addResponse(msgs, i,
                         otherResponse("new parameters", OtherLiveRef))
                     EXCEPT ![i].other_task = "done"]
    /\ UNCHANGED <<film_length, workers, dispatch>>

\* The second controller's "stop film" branch, when its stopFilm() and its
\* getParameters() returned: the response with its driver's live parameters
\* (when one of them raises, the branch adds nothing to the message).  The message reaches it
\* when the first controller's handler has returned or raised, and before
\* the next message is sent; what the first controller's handler did does
\* not matter to it.
otherStopFilm(i) ==
    /\ msgs[i].type = "stop film"
    /\ i = Len(msgs)
    /\ dispatch = 0
    /\ ResponsesFrom(i, other_name) = {}
    /\ msgs' = addResponse(msgs, i, otherResponse("parameters", OtherLiveRef))
    /\ UNCHANGED <<film_length, parameters, workers, dispatch>>

\* The second controller's "get camera functionality" branch, for a message
\* that names it.
otherGetCameraFunctionality(i) ==
    /\ msgs[i].type = "get camera functionality"
    /\ msgs[i].data.camera = other_name
    /\ i = Len(msgs)
    /\ dispatch = 0
    /\ ResponsesFrom(i, other_name) = {}
    /\ msgs' = addResponse(msgs, i,
                   otherResponse("functionality", [camera_name |-> other_name]))
    /\ UNCHANGED <<film_length, parameters, workers, dispatch>>

OtherUpdatesParameters ==
    \E i \in Delivered :
        \/ \E params_ok \in BOOLEAN : otherUpdateParametersStart(i, params_ok)
        \/ \E driver_ok, params_ok \in BOOLEAN :
               otherUpdateParametersFinish(i, driver_ok, params_ok)

OtherStopsFilm == \E i \in Delivered : otherStopFilm(i)

OtherAnswersFunctionality == \E i \in Delivered : otherGetCameraFunctionality(i)

\* Both controllers constructed: each driver holds its configured parameters.
TwoCamerasInit ==
    /\ film_length = None
    /\ parameters = [ref \in {OtherLiveRef, LiveRef} |-> 0]
    /\ msgs = <<>>
    /\ workers = <<>>
    /\ dispatch = 0

\* Both controllers are followed over the first MaxBusMsgs messages sent.
TwoCamerasNext ==
    \/ Next /\ Len(msgs') <= MaxBusMsgs
    \/ OtherUpdatesParameters
    \/ OtherStopsFilm
    \/ OtherAnswersFunctionality

TwoCameras == TwoCamerasInit /\ [][TwoCamerasNext]_vars

----------------------------------------------------------------------------
(* C11 *)

\* The driver calls that have been entered and have not returned.
RunningCalls ==
    {ik \in Delivered \X (1..3) :
        /\ ik[2] \in DOMAIN msgs[ik[1]].calls
        /\ msgs[ik[1]].calls[ik[2]].result = "running"}

\* C11: at no time are two calls of camera_control methods of this
\* controller executing: a call made by a worker task overlaps neither a
\* call made by another worker task nor a call made by the handler.
C11_NoOverlappingDriverCalls == Cardinality(RunningCalls) <= 1

----------------------------------------------------------------------------
(* C12 *)

\* C12: every call of processMessage schedules at most one worker task for
\* the message it handles.
C12_AtMostOneTaskPerMessage ==
    /\ [](\A i \in Delivered : Cardinality(WorkersOf(i)) <= 1)
    /\ [][Len(workers') <= Len(workers) + 1]_vars

\* Three messages that each scheduled a task.
C12_Witness ==
    /\ Len(msgs) = 3
    /\ \A i \in Delivered : Cardinality(WorkersOf(i)) = 1
    /\ \E i \in Delivered : msgs[i].type = "shutter clicked"
    /\ \E i \in Delivered : msgs[i].type = "new parameters"

----------------------------------------------------------------------------
(* C13 *)

IsFunctionalityRequestForThisCamera(m) ==
    /\ m.type = "get camera functionality"
    /\ m.data.camera = module_name

\* C13 as claimed: "get camera functionality" naming this controller adds
\* exactly one response, carrying the driver's CameraFunctionality, in the
\* handler itself (no worker task).
C13_AlwaysAnswered ==
    \A i \in Delivered :
        IsFunctionalityRequestForThisCamera(msgs[i]) =>
            /\ msgs[i].responses
                   = <<HalMessageResponse("functionality", getCameraFunctionality)>>
            /\ WorkersOf(i) = {}

\* C13, amended: "get camera functionality" naming this controller calls
\* getCameraFunctionality() once, in the handler itself (no worker task);
\* when the call returns the handler adds exactly one response, carrying the
\* driver's CameraFunctionality; when it raises no response is added and the
\* exception leaves processMessage.  Neither film_length nor the state of
\* the driver changes.
C13_FunctionalityIsAnsweredAtOnce ==
    /\ [](\A i \in Delivered :
              IsFunctionalityRequestForThisCamera(msgs[i]) =>
                  /\ CallNames(i) = <<"getCameraFunctionality">>
                  /\ WorkersOf(i) = {}
                  /\ msgs[i].raised <=> ~NoCallFailed(i)
                  /\ msgs[i].responses
                         = IF NoCallFailed(i)
                           THEN <<[source |-> module_name,
                                   data |-> [name |-> "functionality",
                                             value |-> getCameraFunctionality]]>>
                           ELSE <<>>)
    /\ [][(Len(msgs') = Len(msgs) + 1
           /\ IsFunctionalityRequestForThisCamera(msgs'[Len(msgs')])) =>
              /\ film_length' = film_length
              /\ parameters' = parameters
              /\ workers' = workers
              /\ dispatch' = dispatch
              /\ Len(msgs'[Len(msgs')].calls) = 1
              /\ msgs'[Len(msgs')].calls[1].result # "running"]_vars

\* The request answered while a length is pending, and a request whose
\* getCameraFunctionality() raised.
C13_Witness ==
    \E i, j \in Delivered :
        /\ IsFunctionalityRequestForThisCamera(msgs[i])
        /\ Len(msgs[i].responses) = 1
        /\ msgs[i].before.film_length # None
        /\ film_length # None
        /\ IsFunctionalityRequestForThisCamera(msgs[j])
        /\ msgs[j].responses = <<>>
        /\ msgs[j].raised

----------------------------------------------------------------------------
(* C14 *)

\* C14: "start film" makes no driver call, schedules no worker task and adds
\* no response; startCamera() is called only for a "start camera" message
\* naming this controller.
C14_StartFilmDoesNotStartCamera ==
    /\ \A i \in Delivered :
           /\ msgs[i].type = "start film" =>
                  /\ msgs[i].calls = <<>>
                  /\ msgs[i].responses = <<>>
           /\ (\E k \in DOMAIN msgs[i].calls : msgs[i].calls[k].op = "startCamera") =>
                  /\ msgs[i].type = "start camera"
                  /\ msgs[i].data.camera = module_name
    /\ \A w \in DOMAIN workers :
           /\ msgs[workers[w].msg].type # "start film"
           /\ workers[w].task = "startCamera" =>
                  /\ msgs[workers[w].msg].type = "start camera"
                  /\ msgs[workers[w].msg].data.camera = module_name

\* A film started and the camera started by its own message.
C14_Witness ==
    \E i, j \in Delivered :
        /\ IsFixedStartFilm(i)
        /\ j > i
        /\ msgs[j].type = "start camera"
        /\ NumCalls(j, "startCamera") = 1
        /\ msgs[i].calls = <<>>

----------------------------------------------------------------------------
(* C15 *)

IsTerminal(w) == workers[w].pc \in {"done", "failed"}

----------------------------------------------------------------------------
(* C16 *)

\* C16: the task scheduled by "film timing" calls setFilmLength with the
\* value film_length had when the message was dispatched, never with None or
\* with another length, whatever "stop film" or "start film" is dispatched
\* before the task runs.
C16_TaskPassesLengthAtDispatch ==
    \A i \in Delivered :
        msgs[i].type = "film timing" =>
            \A k \in DOMAIN msgs[i].calls :
                /\ msgs[i].calls[k].arg # None
                /\ msgs[i].calls[k].arg = msgs[i].before.film_length

----------------------------------------------------------------------------
(* C17 *)

IsUnrecognised(m) ==
    m.type \notin {"configure1", "film timing", "get camera functionality",
                   "new parameters", "shutter clicked", "start camera",
                   "start film", "stop camera", "stop film"}

\* C17: film_length changes only in the handling of "start film" and of
\* "stop film"; every other message, of a type the handler knows or not,
\* leaves it as it is, and "film timing" reads it without clearing it.  A
\* message of an unknown type causes no driver call and no response.
C17_OnlyFilmMessagesChangeLength ==
    /\ [][film_length' # film_length =>
              /\ Len(msgs') = Len(msgs) + 1
              /\ msgs'[Len(msgs')].type \in {"start film", "stop film"}]_vars
    /\ [](\A i \in Delivered :
              IsUnrecognised(msgs[i]) =>
                  /\ msgs[i].calls = <<>>
                  /\ msgs[i].responses = <<>>
                  /\ msgs[i].emitted = <<>>
                  /\ WorkersOf(i) = {})

\* A "film timing" task has pushed a length that is still pending, and a
\* message of an unknown type came after it.
C17_Witness ==
    \E i, j \in Delivered :
        /\ IsFilmTimingForThisCamera(i)
        /\ NumCalls(i, "setFilmLength") = 1
        /\ j > i
        /\ IsUnrecognised(msgs[j])
        /\ msgs[j].before.film_length # None
        /\ film_length # None

----------------------------------------------------------------------------
(* C19 *)

StopFilmFailed(i) ==
    /\ msgs[i].type = "stop film"
    /\ msgs[i].calls # <<>>
    /\ msgs[i].calls[1].result = "error"

\* C19: when camera_control.stopFilm() fails in the handling of "stop film",
\* film_length is None already, no response is added to the message, and
\* the failure leaves processMessage.
C19_StopFilmFailureLeavesNoResponse ==
    /\ [](\A i \in Delivered :
              /\ StopFilmFailed(i) =>
                     /\ msgs[i].responses = <<>>
                     /\ msgs[i].raised
                     /\ Len(msgs[i].calls) = 1
                     /\ Returned(i)
              /\ (msgs[i].type = "stop film" /\ ~Returned(i)) =>
                     film_length = None)
    /\ [][(dispatch # 0 /\ msgs'[dispatch].calls[1].result = "error") =>
              /\ film_length = None
              /\ film_length' = None
              /\ dispatch' = 0]_vars

\* stopFilm() failed for a "stop film" that ended a fixed-length film.
C19_Witness ==
    \E i \in Delivered :
        /\ StopFilmFailed(i)
        /\ msgs[i].before.film_length # None
        /\ i = Len(msgs)
        /\ film_length = None
        /\ msgs[i].raised

----------------------------------------------------------------------------
(* C20 *)

InitialParameters ==
    [m_type |-> "initial parameters",
     data |-> [name |-> "parameters", value |-> getParameters]]

\* C20 as claimed: "configure1" emits exactly one "initial parameters"
\* message, with the driver's current parameters; it adds no response and
\* schedules no worker task.
C20_AlwaysEmits ==
    \A i \in Delivered :
        msgs[i].type = "configure1" =>
            /\ msgs[i].emitted = <<InitialParameters>>
            /\ msgs[i].responses = <<>>
            /\ WorkersOf(i) = {}

\* C20, amended: "configure1" calls getParameters() once; when the call
\* returns it emits exactly one "initial parameters" message, with the
\* driver's current parameters; when the call raises it emits nothing and
\* the exception leaves processMessage.  It adds no response, schedules no
\* worker task and does not change the driver's parameters.
C20_Configure1EmitsInitialParameters ==
    /\ [](\A i \in Delivered :
              msgs[i].type = "configure1" =>
                  /\ CallNames(i) = <<"getParameters">>
                  /\ msgs[i].raised <=> ~NoCallFailed(i)
                  /\ msgs[i].emitted
                         = IF NoCallFailed(i) THEN <<InitialParameters>> ELSE <<>>
                  /\ msgs[i].responses = <<>>
                  /\ WorkersOf(i) = {})
    /\ [][(Len(msgs') = Len(msgs) + 1
           /\ msgs'[Len(msgs')].type = "configure1") =>
              /\ parameters' = parameters
              /\ workers' = workers
              /\ film_length' = film_length]_vars

\* "configure1" handled after the driver's parameters were changed, and a
\* "configure1" whose getParameters() raised.
C20_Witness ==
    \E i, j \in Delivered :
        /\ msgs[i].type = "configure1"
        /\ Len(msgs[i].emitted) = 1
        /\ msgs[i].before.parameters # 0
        /\ parameters[getParameters] = msgs[i].before.parameters
        /\ msgs[j].type = "configure1"
        /\ msgs[j].emitted = <<>>
        /\ msgs[j].raised

----------------------------------------------------------------------------
(* C18 *)

\* Response k of message i has the given source and name.
IsResponse(i, k, source, name) ==
    /\ msgs[i].responses[k].source = source
    /\ msgs[i].responses[k].data.name = name

\* C18: responses are only ever added at the end of a message's sequence:
\* every response stays where it is.  When two controllers handle the same
\* "new parameters" message with their worker tasks interleaved, the
\* "old parameters" of each controller comes before the "new parameters" of
\* the same controller.
C18_ResponsesAreOnlyAppended ==
    /\ [][\A i \in Delivered :
              /\ Len(msgs'[i].responses) >= Len(msgs[i].responses)
              /\ \A k \in DOMAIN msgs[i].responses :
                     msgs'[i].responses[k] = msgs[i].responses[k]]_vars
    /\ [](\A i \in Delivered : \A c \in CameraNames :
              \A k \in DOMAIN msgs[i].responses :
                  IsResponse(i, k, c, "new parameters") =>
                      /\ \E j \in 1..(k - 1) : IsResponse(i, j, c, "old parameters")
                      /\ \A j \in k..Len(msgs[i].responses) :
                             ~IsResponse(i, j, c, "old parameters"))

\* The four responses of two controllers, interleaved, each carrying an
\* object of its own, and a "stop film" answered by both controllers.
C18_Witness ==
    \E i, j \in Delivered :
        /\ msgs[j].type = "stop film"
        /\ Len(msgs[j].responses) = 2
        /\ msgs[j].responses[1].source = module_name
        /\ msgs[j].responses[2].source = other_name
        /\ msgs[i].type = "new parameters"
        /\ Len(msgs[i].responses) = 4
        /\ IsResponse(i, 1, other_name, "old parameters")
        /\ IsResponse(i, 2, module_name, "old parameters")
        /\ IsResponse(i, 3, other_name, "new parameters")
        /\ IsResponse(i, 4, module_name, "new parameters")
        /\ msgs[i].responses[1].data.value # msgs[i].responses[2].data.value
        /\ msgs[i].responses[3].data.value # msgs[i].responses[4].data.value
        /\ parameters[msgs[i].responses[3].data.value]
               # parameters[msgs[i].responses[4].data.value]

====
